---- MODULE Spec2Model ----
(***************************************************************************)
(* Real-time synchronisation layer of kalix-dear-diary: the WebSocket      *)
(* session handler (apps/api/src/ws/handler.ts, kept in the second half of *)
(* src/apps/api/src/middleware/auth.ts), the connection registry           *)
(* (apps/api/src/ws/connections.ts), the storage services and the REST     *)
(* mutation routes that share broadcastToUser, and the web client's        *)
(* WebSocketProvider, which opens the sockets the handler serves.          *)
(*                                                                         *)
(* Node runs every handler to its next await without interruption, so each *)
(* action below is one such run-to-completion segment.  The message        *)
(* handler is an async function registered with socket.on('message'): the  *)
(* emitter does not wait for the returned promise, so several handler      *)
(* invocations of one socket may be suspended at the same time (tasks).    *)
(***************************************************************************)
EXTENDS Integers, Sequences, FiniteSets, TLC

\* ---------------------------------------------------------------- bounds
MaxInputs == 2
MaxSessionInputs == 4
MaxIdentityInputs == 3
MaxRegistryCalls == 5
MaxPipelineInputs == 3
MaxIsolationInputs == 4
MaxOrderingInputs == 4
MaxEntities == 2
MaxWebSockets == 4

Sockets == {"s1", "s2"}
Users == {"u1", "u2"}
GhostUser == "u9"
NULL == "null"

\* ------------------------------------------------------------- constants
SERVICE_TOKEN == "svc"
TIMEOUT_CLOSE_CODE == 4001

VARIABLES
  readyState,     \* socket -> "NONE" | "OPEN" | "CLOSING" | "CLOSED" (ws readyState; NONE = not yet accepted)
  errored,        \* socket -> the transport 'error' event has been emitted
  closeCode,      \* socket -> code the server passed to socket.close, 0 if none
  authenticated,  \* socket -> closure variable `authenticated`
  userId,         \* socket -> closure variable `userId`
  authTimeout,    \* socket -> "none" | "pending" | "cleared" | "fired"
  connections,    \* registry: userId -> sequence of WSConnection (a JS Set iterates in insertion order)
  socketMap,      \* registry: socket -> WSConnection or NoConn (WeakMap, never deleted from)
  db,             \* storage: sequence of rows, the row id is its index
  tasks,          \* suspended async handlers (WebSocket frames and REST requests)
  outbox,         \* socket -> sequence of frames the server has sent on it
  hist,           \* history: per socket (and for "rest") the inbound frames / requests in arrival order
  sendFault,      \* environment: socket.send may throw during a broadcast
  profile,        \* environment: the load the clients put on the server
  accessToken,    \* web client: useAuth().accessToken of the current render
  isAuthenticated,      \* web client: useAuth().isAuthenticated of the current render
  wsRef,                \* web client: wsRef.current, index into webSockets, 0 for null
  reconnectTimeoutRef,  \* web client: reconnectTimeoutRef.current, id of the last timer set, 0 for undefined
  webSockets,           \* web client: the WebSocket objects created so far, each with its handlers' closure
  timers                \* web client: ids of the reconnect timers that are pending

clientVars == <<accessToken, isAuthenticated, wsRef, reconnectTimeoutRef, webSockets, timers>>

serverVars == <<readyState, errored, closeCode, authenticated, userId, authTimeout,
                connections, socketMap, db, tasks, outbox, hist, sendFault, profile>>

vars == <<readyState, errored, closeCode, authenticated, userId, authTimeout,
          connections, socketMap, db, tasks, outbox, hist, sendFault, profile,
          accessToken, isAuthenticated, wsRef, reconnectTimeoutRef, webSockets, timers>>

\* ------------------------------------------------------------ wire frames
CmdTypes == {"todo.create", "todo.update", "todo.complete", "diary.create", "mood.log"}

Tokens == {SERVICE_TOKEN, "jwt_u1", "jwt_u2", "jwt_ghost", "refresh_u1", "garbage"}

Frame(type, token, uid, rid, todoId, data) ==
  [type |-> type, token |-> token, userId |-> uid, rid |-> rid, todoId |-> todoId, data |-> data]

\* auth frames: every token alone, the service token also with a userId field,
\* and an auth frame without a token
AuthFrames ==
  {Frame("auth", tok, NULL, "none", 0, NULL) : tok \in Tokens \cup {NULL}}
  \cup {Frame("auth", SERVICE_TOKEN, "u1", "none", 0, NULL)}

\* command frames: data is "ok" (passes the payload schema), "empty" ({} for
\* todo.update) or "bad" (fails the payload schema); requestId is a UUID
\* ("uuid"), another non-empty string such as "r1" ("text") or absent ("none")
CommandFrames ==
  {Frame(t, NULL, NULL, "uuid", 0, "ok") : t \in {"todo.create", "diary.create", "mood.log"}}
  \cup {Frame("todo.create", NULL, NULL, "uuid", 0, "bad")}
  \cup {Frame("todo.create", NULL, NULL, "text", 0, "ok")}
  \cup {Frame("todo.update", NULL, NULL, "uuid", i, "ok") : i \in 1..MaxEntities}
  \cup {Frame("todo.update", NULL, NULL, "uuid", 1, "empty")}
  \cup {Frame("todo.complete", NULL, NULL, "uuid", i, "ok") : i \in 1..MaxEntities}

\* text that is not JSON, an object of an unknown type, and the JSON value null
OtherFrames ==
  {Frame("badjson", NULL, NULL, "none", 0, NULL), Frame("ping", NULL, NULL, "uuid", 0, NULL),
   Frame("jsonnull", NULL, NULL, "none", 0, NULL)}

Frames == AuthFrames \cup CommandFrames \cup OtherFrames

\* the frames of the sessions of one user: its access token and a command
SessionFrames ==
  {Frame("auth", "jwt_u1", NULL, "none", 0, NULL),
   Frame("mood.log", NULL, NULL, "uuid", 0, "ok")}

\* the frames of a client that holds the access tokens of two users
IdentityFrames ==
  {Frame("auth", tok, NULL, "none", 0, NULL) : tok \in {"jwt_u1", "jwt_u2"}}
  \cup {Frame("mood.log", NULL, NULL, "uuid", 0, "ok")}

\* the frames of a client that sends commands on one todo back to back
PipelineFrames ==
  {Frame("auth", "jwt_u1", NULL, "none", 0, NULL),
   Frame("todo.update", NULL, NULL, "uuid", 1, "ok"),
   Frame("todo.complete", NULL, NULL, "uuid", 1, "ok")}

\* the frames clients send under a load profile
FramesIn(p) ==
  CASE p = "mixed" -> Frames
    [] p = "sessions" -> SessionFrames
    [] p = "identities" -> IdentityFrames
    [] p = "pipeline" -> PipelineFrames
    [] p = "isolation" -> IdentityFrames
    [] p = "ordering" -> PipelineFrames

\* variant: the handler without the JSON.parse guard
ParsesAsJsonAlways(f) == TRUE

\* JSON.parse(data.toString()) succeeds
ParsesAsJson(f) == f.type # "badjson"

\* wsAuthMessageSchema: {type: 'auth', token: string}; unknown keys are stripped
MatchesAuth(f) == f.type = "auth" /\ f.token # NULL

MatchesTodoCreate(f) == f.type = "todo.create" /\ f.rid = "uuid" /\ f.data = "ok"
MatchesTodoUpdate(f) == f.type = "todo.update" /\ f.rid = "uuid" /\ f.todoId # 0 /\ f.data \in {"ok", "empty"}
\* variant: the todo.complete schema without its literal type
MatchesTodoCompleteAnyType(f) == f.rid = "uuid" /\ f.todoId # 0 /\ f.data \in {"ok", NULL}

MatchesTodoComplete(f) == f.type = "todo.complete" /\ f.rid = "uuid" /\ f.todoId # 0 /\ f.data \in {"ok", NULL}
MatchesDiaryCreate(f) == f.type = "diary.create" /\ f.rid = "uuid" /\ f.data = "ok"
MatchesMoodLog(f) == f.type = "mood.log" /\ f.rid = "uuid" /\ f.data = "ok"

\* the if-chain of safeParse calls, first match wins
MatchedCommand(f) ==
  IF MatchesTodoCreate(f) THEN "todo.create"
  ELSE IF MatchesTodoUpdate(f) THEN "todo.update"
  ELSE IF MatchesTodoComplete(f) THEN "todo.complete"
  ELSE IF MatchesDiaryCreate(f) THEN "diary.create"
  ELSE IF MatchesMoodLog(f) THEN "mood.log"
  ELSE NULL

\* fastify.jwt.verify: the payload, or ok = FALSE when it throws
JwtVerify(tok) ==
  CASE tok = "jwt_u1" -> [ok |-> TRUE, sub |-> "u1", type |-> "access"]
    [] tok = "jwt_u2" -> [ok |-> TRUE, sub |-> "u2", type |-> "access"]
    [] tok = "jwt_ghost" -> [ok |-> TRUE, sub |-> GhostUser, type |-> "access"]
    [] tok = "refresh_u1" -> [ok |-> TRUE, sub |-> "u1", type |-> "refresh"]
    [] OTHER -> [ok |-> FALSE, sub |-> NULL, type |-> NULL]

\* schema.safeParse(message).success for the command schema named sh
MatchesShape(sh, f) ==
  CASE sh = "todo.create" -> MatchesTodoCreate(f)
    [] sh = "todo.update" -> MatchesTodoUpdate(f)
    [] sh = "todo.complete" -> MatchesTodoComplete(f)
    [] sh = "diary.create" -> MatchesDiaryCreate(f)
    [] sh = "mood.log" -> MatchesMoodLog(f)

\* the if-chain with the five safeParse calls tried in the order o, from position i
RECURSIVE FirstMatch(_, _, _)
FirstMatch(o, f, i) ==
  IF i > Len(o) THEN NULL
  ELSE IF MatchesShape(o[i], f) THEN o[i]
  ELSE FirstMatch(o, f, i + 1)

\* msg.requestId can be read: msg is not null (a TypeError otherwise)
HasProperties(f) == f.type # "jsonnull"

\* const requestId = msg.requestId || 'unknown'
\* (a frame's request id is its arrival number on its socket, 0 stands for 'unknown')
RequestIdOf(f, k) == IF f.rid = "none" THEN 0 ELSE k

\* ------------------------------------------------------- server -> client
Msg(type, rid, ok, code, data, cause) ==
  [type |-> type, requestId |-> rid, ok |-> ok, code |-> code, data |-> data, cause |-> cause]

\* an entity as the services' mapRow returns it; NoEntity where a frame has no data
Entity(id, kind, owner, status, title) ==
  [id |-> id, kind |-> kind, userId |-> owner, status |-> status, title |-> title]

NoEntity == Entity(0, NULL, NULL, NULL, NULL)

AuthOk(cause) == Msg("auth.ok", 0, FALSE, NULL, NoEntity, cause)
AuthError(reason, cause) == Msg("auth.error", 0, FALSE, reason, NoEntity, cause)
AckOk(rid, entity, cause) == Msg("ack", rid, TRUE, NULL, entity, cause)
AckErr(rid, code, cause) == Msg("ack", rid, FALSE, code, NoEntity, cause)
Event(type, entity, cause) == Msg(type, 0, FALSE, NULL, entity, cause)

\* the event a WebSocket command broadcasts after success
WsEventType(cmd) ==
  CASE cmd = "todo.create" -> "event.todo.created"
    [] cmd = "todo.update" -> "event.todo.updated"
    [] cmd = "todo.complete" -> "event.todo.completed"
    [] cmd = "diary.create" -> "event.diary.created"
    [] cmd = "mood.log" -> "event.mood.logged"

\* ------------------------------------------------------------- registry
Conn(s, u, cid) == [socket |-> s, userId |-> u, cid |-> cid]

NoConn == Conn(NULL, NULL, [src |-> NULL, k |-> 0])

HasKey(cs, u) == u \in DOMAIN cs

\* variant: send without the readyState test
SendAnyState(ob, s, m) == [ob EXCEPT ![s] = Append(@, m)]

\* WSConnectionManager.send
Send(ob, s, m) == IF readyState[s] = "OPEN" THEN [ob EXCEPT ![s] = Append(@, m)] ELSE ob

\* variant: the user's set is created anew on every registration
AddConnectionFreshSet(cs, c) ==
  [u \in DOMAIN cs \cup {c.userId} |-> IF u = c.userId THEN <<c>> ELSE cs[u]]

\* WSConnectionManager.addConnection: the connections map afterwards
AddConnection(cs, c) ==
  IF HasKey(cs, c.userId)
  THEN [cs EXCEPT ![c.userId] = Append(@, c)]
  ELSE [u \in DOMAIN cs \cup {c.userId} |-> IF u = c.userId THEN <<c>> ELSE cs[u]]

SeqWithout(q, c) == SelectSeq(q, LAMBDA x : x # c)

\* variant: an emptied set stays in the map
RemoveConnectionKeepEmpty(cs, sm, s) ==
  LET c == sm[s] IN
  IF c = NoConn THEN cs
  ELSE IF ~HasKey(cs, c.userId) THEN cs
  ELSE [cs EXCEPT ![c.userId] = SeqWithout(cs[c.userId], c)]

\* variant: the whole group of the socket's user is dropped
RemoveConnectionByUser(cs, sm, s) ==
  LET c == sm[s] IN
  IF c = NoConn THEN cs
  ELSE [u \in DOMAIN cs \ {c.userId} |-> cs[u]]

\* variant: the whole group of the socket's user is deleted
RemoveConnectionWholeGroup(cs, sm, s) ==
  IF sm[s] = NoConn \/ ~HasKey(cs, sm[s].userId) THEN cs
  ELSE [v \in DOMAIN cs \ {sm[s].userId} |-> cs[v]]

\* WSConnectionManager.removeConnection: the connections map afterwards
RemoveConnection(cs, sm, s) ==
  LET c == sm[s] IN
  IF c = NoConn THEN cs
  ELSE IF ~HasKey(cs, c.userId) THEN cs
  ELSE LET rest == SeqWithout(cs[c.userId], c) IN
       IF Len(rest) = 0
       THEN [u \in DOMAIN cs \ {c.userId} |-> cs[u]]
       ELSE [cs EXCEPT ![c.userId] = rest]

\* WSConnectionManager.getConnectionCount
GetConnectionCount(u) == IF HasKey(connections, u) THEN Len(connections[u]) ELSE 0

\* variant: the loop sends without looking at readyState
RECURSIVE BroadcastLoopAnyState(_, _, _, _)
BroadcastLoopAnyState(ob, q, n, m) ==
  IF n = 0 THEN ob
  ELSE LET prev == BroadcastLoopAnyState(ob, q, n - 1, m) IN
       [prev EXCEPT ![q[n].socket] = Append(@, m)]

\* the for-loop of broadcastToUser over the first n connections of q
RECURSIVE BroadcastLoop(_, _, _, _)
\* variant: for every connection after the first the payload is queued in
\* front of what the socket was sent before
RECURSIVE BroadcastLoopDeferred(_, _, _, _)
BroadcastLoopDeferred(ob, q, n, m) ==
  IF n = 0 THEN ob
  ELSE LET prev == BroadcastLoopDeferred(ob, q, n - 1, m) IN
       IF readyState[q[n].socket] = "OPEN"
       THEN [prev EXCEPT ![q[n].socket] = IF n = 1 THEN Append(@, m) ELSE <<m>> \o @]
       ELSE prev

BroadcastLoop(ob, q, n, m) ==
  IF n = 0 THEN ob
  ELSE LET prev == BroadcastLoop(ob, q, n - 1, m) IN
       IF readyState[q[n].socket] = "OPEN"
       THEN [prev EXCEPT ![q[n].socket] = Append(@, m)]
       ELSE prev

\* the connections broadcastToUser iterates over
Group(u) == IF HasKey(connections, u) THEN connections[u] ELSE <<>>

\* variant: no early return, iterating over a missing group throws
ThrowPointsUnguarded(u) ==
  IF ~HasKey(connections, u) THEN {1}
  ELSE {0} \cup (IF sendFault
                 THEN {i \in 1..Len(Group(u)) : readyState[Group(u)[i].socket] = "OPEN"}
                 ELSE {})

\* positions of the loop at which socket.send can throw: 0 stands for a
\* broadcast that completes; send is only called on OPEN sockets
ThrowPoints(u) ==
  {0} \cup (IF sendFault
            THEN {i \in 1..Len(Group(u)) : readyState[Group(u)[i].socket] = "OPEN"}
            ELSE {})

\* variant: the loop drops the connections whose socket is not open
AfterBroadcastPruned(cs, u) ==
  IF ~HasKey(cs, u) THEN cs
  ELSE LET kept == SelectSeq(cs[u], LAMBDA c : readyState[c.socket] = "OPEN") IN
       IF kept = <<>> THEN [v \in DOMAIN cs \ {u} |-> cs[v]] ELSE [cs EXCEPT ![u] = kept]

\* the registry after broadcastToUser(u, m) and after send(socket, m): both
\* only read the map
AfterBroadcast(cs, u) == cs

\* WSConnectionManager.broadcastToUser, throwing at position at (0: never)
BroadcastToUser(ob, u, m, at) ==
  BroadcastLoop(ob, Group(u), IF at = 0 THEN Len(Group(u)) ELSE at - 1, m)

\* -------------------------------------------------------------- storage
Row(kind, owner, status, title, live) ==
  [kind |-> kind, owner |-> owner, status |-> status, title |-> title, live |-> live]

\* mapRow: the entity of row i
EntityOf(rows, i) == Entity(i, rows[i].kind, rows[i].owner, rows[i].status, rows[i].title)

CreateOps == {"todo.create", "diary.create", "mood.log"}
DeleteOps == {"todo.delete", "diary.delete", "mood.delete"}
TargetOps == {"todo.update", "todo.complete"} \cup DeleteOps

\* the table an operation works on
TableOf(op) ==
  CASE op \in {"todo.create", "todo.update", "todo.complete", "todo.delete"} -> "todo"
    [] op \in {"diary.create", "diary.delete"} -> "diary"
    [] op \in {"mood.log", "mood.delete"} -> "mood"

\* variant: WHERE id = $1 only, the row is not scoped to the caller
RowMatchesAnyOwner(rows, op, u, i) ==
  /\ i \in 1..Len(rows)
  /\ rows[i].live
  /\ rows[i].kind = TableOf(op)

\* WHERE id = $1 AND user_id = $2 on the operation's table
RowMatches(rows, op, u, i) ==
  /\ i \in 1..Len(rows)
  /\ rows[i].live
  /\ rows[i].kind = TableOf(op)
  /\ rows[i].owner = u

\* the rows after the service call op(u, i, data)
StorageRows(rows, op, u, i, data) ==
  IF op \in CreateOps
  THEN Append(rows, Row(TableOf(op), u, "open", "a", TRUE))
  ELSE IF ~RowMatches(rows, op, u, i) THEN rows
  ELSE CASE op = "todo.update" -> IF data = "empty" THEN rows ELSE [rows EXCEPT ![i].title = "b"]
         [] op = "todo.complete" -> [rows EXCEPT ![i].status = "done"]
         [] op \in DeleteOps -> [rows EXCEPT ![i].live = FALSE]

\* what the service call returns: "ok" with the entity, or "null"
\* (null / false: no row of this user with this id)
StorageResult(rows, op, u, i, data) ==
  IF op \in CreateOps
  THEN [out |-> "ok", res |-> EntityOf(StorageRows(rows, op, u, i, data), Len(rows) + 1)]
  ELSE IF ~RowMatches(rows, op, u, i) THEN [out |-> "null", res |-> NoEntity]
  ELSE IF op \in DeleteOps THEN [out |-> "ok", res |-> NoEntity]
  ELSE [out |-> "ok", res |-> EntityOf(StorageRows(rows, op, u, i, data), i)]

\* ---------------------------------------------------------------- tasks
Task(id, via, sock, kind, user, rid, todoId, data) ==
  [id |-> id, via |-> via, sock |-> sock, kind |-> kind, user |-> user, rid |-> rid,
   todoId |-> todoId, data |-> data]

Hist(via, sock, frame, authed, user) ==
  [via |-> via, sock |-> sock, frame |-> frame, authed |-> authed, user |-> user,
   calls |-> 0, callUser |-> NULL, out |-> "none", bcasts |-> 0, bcastUser |-> NULL,
   reply |-> "none"]

RECURSIVE SumLen(_, _)
SumLen(h, S) ==
  IF S = {} THEN 0
  ELSE LET s == CHOOSE x \in S : TRUE IN Len(h[s]) + SumLen(h, S \ {s})

\* WSConnectionManager.getTotalConnections
GetTotalConnections == SumLen(connections, DOMAIN connections)

\* inbound frames, REST requests and registry calls so far
InputCount == SumLen(hist, Sockets \cup {"rest"})

\* the number of inputs a load profile is explored to
Budget(p) ==
  CASE p = "mixed" -> MaxInputs
    [] p = "sessions" -> MaxSessionInputs
    [] p = "identities" -> MaxIdentityInputs
    [] p = "registry" -> MaxRegistryCalls
    [] p = "pipeline" -> MaxPipelineInputs
    [] p = "isolation" -> MaxIsolationInputs
    [] p = "ordering" -> MaxOrderingInputs

\* the id of the next frame on socket s (or of the next REST request)
NextId(src) == [src |-> src, k |-> Len(hist[src]) + 1]

\* rows that exist or are about to be created
Planned == Len(db) + Cardinality({t \in tasks : t.kind \in CreateOps})

\* ----------------------------------------------------------------- init
\* the WebSocketProvider after its first render, nobody logged in
InitProvider ==
  /\ accessToken = NULL
  /\ isAuthenticated = FALSE
  /\ wsRef = 0
  /\ reconnectTimeoutRef = 0
  /\ webSockets = <<>>
  /\ timers = {}

InitRows == <<Row("todo", "u1", "open", "a", TRUE)>>

InitCommon ==
  /\ readyState = [s \in Sockets |-> "NONE"]
  /\ errored = [s \in Sockets |-> FALSE]
  /\ closeCode = [s \in Sockets |-> 0]
  /\ authenticated = [s \in Sockets |-> FALSE]
  /\ userId = [s \in Sockets |-> NULL]
  /\ authTimeout = [s \in Sockets |-> "none"]
  /\ connections = <<>>
  /\ socketMap = [s \in Sockets |-> NoConn]
  /\ db = InitRows
  /\ tasks = {}
  /\ outbox = [s \in Sockets |-> <<>>]
  /\ hist = [src \in Sockets \cup {"rest"} |-> <<>>]
  /\ InitProvider

Init == InitCommon /\ sendFault = FALSE /\ profile = "mixed"

InitSendFault == InitCommon /\ sendFault = TRUE /\ profile = "mixed"

InitSessions == InitCommon /\ sendFault = FALSE /\ profile = "sessions"

InitIdentities == InitCommon /\ sendFault = FALSE /\ profile = "identities"

InitPipeline == InitCommon /\ sendFault = FALSE /\ profile = "pipeline"

\* the server idle and the web client about to be used
InitClient == InitCommon /\ sendFault = FALSE /\ profile = "client"

\* the server after socket s2 has connected and authenticated as u2 with its
\* first frame; s1 has not connected yet
InitIsolation ==
  LET first == [src |-> "s2", k |-> 1]
      conn == Conn("s2", "u2", first) IN
  /\ readyState = [s \in Sockets |-> IF s = "s2" THEN "OPEN" ELSE "NONE"]
  /\ errored = [s \in Sockets |-> FALSE]
  /\ closeCode = [s \in Sockets |-> 0]
  /\ authenticated = [s \in Sockets |-> s = "s2"]
  /\ userId = [s \in Sockets |-> IF s = "s2" THEN "u2" ELSE NULL]
  /\ authTimeout = [s \in Sockets |-> IF s = "s2" THEN "cleared" ELSE "none"]
  /\ connections = AddConnection(<<>>, conn)
  /\ socketMap = [s \in Sockets |-> IF s = "s2" THEN conn ELSE NoConn]
  /\ db = InitRows
  /\ tasks = {}
  /\ outbox = [s \in Sockets |-> IF s = "s2" THEN <<AuthOk(first)>> ELSE <<>>]
  /\ hist = [src \in Sockets \cup {"rest"} |->
               IF src = "s2"
               THEN <<[Hist("ws", "s2", Frame("auth", "jwt_u2", NULL, "none", 0, NULL), FALSE, NULL)
                        EXCEPT !.reply = "auth.ok"]>>
               ELSE <<>>]
  /\ sendFault = FALSE
  /\ profile = "isolation"
  /\ InitProvider

\* the server after socket s2 has connected and authenticated as u1 with its
\* first frame; s1 has not connected yet
InitOrdering ==
  LET first == [src |-> "s2", k |-> 1]
      conn == Conn("s2", "u1", first) IN
  /\ readyState = [s \in Sockets |-> IF s = "s2" THEN "OPEN" ELSE "NONE"]
  /\ errored = [s \in Sockets |-> FALSE]
  /\ closeCode = [s \in Sockets |-> 0]
  /\ authenticated = [s \in Sockets |-> s = "s2"]
  /\ userId = [s \in Sockets |-> IF s = "s2" THEN "u1" ELSE NULL]
  /\ authTimeout = [s \in Sockets |-> IF s = "s2" THEN "cleared" ELSE "none"]
  /\ connections = AddConnection(<<>>, conn)
  /\ socketMap = [s \in Sockets |-> IF s = "s2" THEN conn ELSE NoConn]
  /\ db = InitRows
  /\ tasks = {}
  /\ outbox = [s \in Sockets |-> IF s = "s2" THEN <<AuthOk(first)>> ELSE <<>>]
  /\ hist = [src \in Sockets \cup {"rest"} |->
               IF src = "s2"
               THEN <<[Hist("ws", "s2", Frame("auth", "jwt_u1", NULL, "none", 0, NULL), FALSE, NULL)
                        EXCEPT !.reply = "auth.ok"]>>
               ELSE <<>>]
  /\ sendFault = FALSE
  /\ profile = "ordering"
  /\ InitProvider

\* the registry singleton after construction, with the sockets accepted
InitRegistry ==
  /\ readyState = [s \in Sockets |-> "OPEN"]
  /\ errored = [s \in Sockets |-> FALSE]
  /\ closeCode = [s \in Sockets |-> 0]
  /\ authenticated = [s \in Sockets |-> FALSE]
  /\ userId = [s \in Sockets |-> NULL]
  /\ authTimeout = [s \in Sockets |-> "pending"]
  /\ connections = <<>>
  /\ socketMap = [s \in Sockets |-> NoConn]
  /\ db = InitRows
  /\ tasks = {}
  /\ outbox = [s \in Sockets |-> <<>>]
  /\ hist = [src \in Sockets \cup {"rest"} |-> <<>>]
  /\ sendFault \in BOOLEAN
  /\ profile = "registry"
  /\ InitProvider

\* ------------------------------------------------------ wsHandler: setup
\* a client connects: wsHandler runs, the closure variables are initialised
\* and the auth timeout is armed
Connect(s) ==
  /\ readyState[s] = "NONE"
  /\ s = "s2" => readyState["s1"] # "NONE"
  /\ readyState' = [readyState EXCEPT ![s] = "OPEN"]
  /\ authenticated' = [authenticated EXCEPT ![s] = FALSE]
  /\ userId' = [userId EXCEPT ![s] = NULL]
  /\ authTimeout' = [authTimeout EXCEPT ![s] = "pending"]
  /\ UNCHANGED <<errored, closeCode, connections, socketMap, db, tasks, outbox, hist, sendFault, profile, clientVars>>

\* -------------------------------------------- wsHandler: message handler
\* variant: the handler without its two gates, every frame is dispatched
BranchUngated(s) == "command"

\* which part of the handler a parsed frame reaches
Branch(s) ==
  IF ~authenticated[s] THEN "auth"
  ELSE IF userId[s] = NULL THEN "drop"
  ELSE "command"

\* variant: the service-token branch returns without sending auth.error
SyncOutcomeSilentServiceToken(s, f) ==
  IF ~ParsesAsJson(f) THEN "INVALID_JSON"
  ELSE IF Branch(s) = "auth"
  THEN IF ~MatchesAuth(f) THEN "auth.format"
       ELSE IF SERVICE_TOKEN # NULL /\ f.token = SERVICE_TOKEN THEN "drop"
       ELSE IF ~JwtVerify(f.token).ok THEN "auth.invalid"
       ELSE IF JwtVerify(f.token).type # "access" THEN "auth.type"
       ELSE "auth.lookup"
  ELSE IF Branch(s) = "drop" THEN "drop"
  ELSE IF ~HasProperties(f) THEN "unhandled"
  ELSE IF MatchedCommand(f) # NULL THEN "command"
  ELSE "UNKNOWN_TYPE"

\* variant: a command frame on an unauthenticated session is answered with an ack
SyncOutcomeAcksEarlyCommands(s, f) ==
  IF ~ParsesAsJson(f) THEN "INVALID_JSON"
  ELSE IF Branch(s) = "auth"
  THEN IF ~MatchesAuth(f) THEN (IF MatchedCommand(f) # NULL THEN "UNKNOWN_TYPE" ELSE "auth.format")
       ELSE IF SERVICE_TOKEN # NULL /\ f.token = SERVICE_TOKEN THEN "auth.service"
       ELSE IF ~JwtVerify(f.token).ok THEN "auth.invalid"
       ELSE IF JwtVerify(f.token).type # "access" THEN "auth.type"
       ELSE "auth.lookup"
  ELSE IF Branch(s) = "drop" THEN "drop"
  ELSE IF ~HasProperties(f) THEN "unhandled"
  ELSE IF MatchedCommand(f) # NULL THEN "command"
  ELSE "UNKNOWN_TYPE"

\* the synchronous outcome of the handler for frame f on socket s
\* ("unhandled": the async handler throws outside its try block, its promise
\* rejects and nothing is sent)
SyncOutcome(s, f) ==
  IF ~ParsesAsJson(f) THEN "INVALID_JSON"
  ELSE IF Branch(s) = "auth"
  THEN IF ~MatchesAuth(f) THEN "auth.format"
       ELSE IF SERVICE_TOKEN # NULL /\ f.token = SERVICE_TOKEN THEN "auth.service"
       ELSE IF ~JwtVerify(f.token).ok THEN "auth.invalid"
       ELSE IF JwtVerify(f.token).type # "access" THEN "auth.type"
       ELSE "auth.lookup"
  ELSE IF Branch(s) = "drop" THEN "drop"
  ELSE IF ~HasProperties(f) THEN "unhandled"
  ELSE IF MatchedCommand(f) # NULL THEN "command"
  ELSE "UNKNOWN_TYPE"

\* variant: a frame that is not an auth frame is answered with an ack
SyncReplyAckForNonAuth(s, f, fid) ==
  LET o == SyncOutcome(s, f) IN
  CASE o = "INVALID_JSON" -> AckErr(0, "INVALID_JSON", fid)
    [] o = "UNKNOWN_TYPE" -> AckErr(RequestIdOf(f, fid.k), "UNKNOWN_TYPE", fid)
    [] o = "auth.format" -> AckErr(RequestIdOf(f, fid.k), "UNKNOWN_TYPE", fid)
    [] OTHER -> AuthError(o, fid)

\* variant: a frame that matches no shape is answered with auth.error
SyncReplyAuthErrorForUnknown(s, f, fid) ==
  LET o == SyncOutcome(s, f) IN
  CASE o = "INVALID_JSON" -> AckErr(0, "INVALID_JSON", fid)
    [] OTHER -> AuthError(o, fid)

\* the frame the handler sends back before it returns without awaiting
SyncReply(s, f, fid) ==
  LET o == SyncOutcome(s, f) IN
  CASE o = "INVALID_JSON" -> AckErr(0, "INVALID_JSON", fid)
    [] o = "UNKNOWN_TYPE" -> AckErr(RequestIdOf(f, fid.k), "UNKNOWN_TYPE", fid)
    [] OTHER -> AuthError(o, fid)

\* what the history keeps of a frame: the fields the handler looked at
Noted(s, f) ==
  IF ~ParsesAsJson(f) THEN f
  ELSE IF Branch(s) = "auth"
  THEN IF f.type = "auth" THEN f
       ELSE Frame(IF f.type \in CmdTypes THEN "command" ELSE "other", NULL, NULL, "none", 0, NULL)
  ELSE IF f.type = "auth" THEN Frame("auth", NULL, NULL, "none", 0, NULL)
  ELSE f

Receiving(s) == readyState[s] \in {"OPEN", "CLOSING"} /\ ~errored[s]

\* a frame the handler answers (or drops) without awaiting anything
MessageSync(s, f) ==
  LET fid == NextId(s)
      o == SyncOutcome(s, f) IN
  /\ Receiving(s)
  /\ InputCount < Budget(profile)
  /\ o \notin {"auth.lookup", "command"}
  /\ outbox' = IF o \in {"drop", "unhandled"} THEN outbox ELSE Send(outbox, s, SyncReply(s, f, fid))
  /\ hist' = [hist EXCEPT ![s] = Append(@, [Hist("ws", s, Noted(s, f), authenticated[s], userId[s]) EXCEPT !.reply = o])]
  /\ UNCHANGED <<readyState, errored, closeCode, authenticated, userId, authTimeout,
                 connections, socketMap, db, tasks, sendFault, profile, clientVars>>

\* an auth frame with a verified access token: await userService.getById(payload.sub)
MessageAuth(s, f) ==
  LET fid == NextId(s) IN
  /\ Receiving(s)
  /\ InputCount < Budget(profile)
  /\ SyncOutcome(s, f) = "auth.lookup"
  /\ tasks' = tasks \cup {Task(fid, "ws", s, "auth", JwtVerify(f.token).sub, 0, 0, NULL)}
  /\ hist' = [hist EXCEPT ![s] = Append(@, Hist("ws", s, Noted(s, f), authenticated[s], userId[s]))]
  /\ UNCHANGED <<readyState, errored, closeCode, authenticated, userId, authTimeout,
                 connections, socketMap, db, outbox, sendFault, profile, clientVars>>

\* a frame matching a command shape: the service is called with the session's userId
MessageCommand(s, f) ==
  LET fid == NextId(s)
      cmd == MatchedCommand(f) IN
  /\ Receiving(s)
  /\ InputCount < Budget(profile)
  /\ SyncOutcome(s, f) = "command"
  /\ cmd \in CreateOps => Planned < MaxEntities
  /\ tasks' = tasks \cup {Task(fid, "ws", s, cmd, userId[s], RequestIdOf(f, fid.k), f.todoId, f.data)}
  /\ hist' = [hist EXCEPT ![s] = Append(@, [Hist("ws", s, Noted(s, f), authenticated[s], userId[s])
                                              EXCEPT !.calls = 1, !.callUser = userId[s]])]
  /\ UNCHANGED <<readyState, errored, closeCode, authenticated, userId, authTimeout,
                 connections, socketMap, db, outbox, sendFault, profile, clientVars>>

\* ------------------------------------------------ awaited collaborators
\* (an action below is the awaited call completing together with the rest of
\* the handler that awaited it)

\* userService.getById(sub): a row or null
UserLookup(sub) == IF sub \in Users THEN "found" ELSE "notfound"

\* a TodoService / DiaryService / MoodService call of task t: the statement
\* commits and returns, or the query fails and nothing is written
ServiceCall(rows, t, fails) ==
  IF fails THEN [out |-> "throw", res |-> NoEntity, rows |-> rows]
  ELSE [out |-> StorageResult(rows, t.kind, t.user, t.todoId, t.data).out,
        res |-> StorageResult(rows, t.kind, t.user, t.todoId, t.data).res,
        rows |-> StorageRows(rows, t.kind, t.user, t.todoId, t.data)]

\* variant: clearTimeout leaves the timer armed
ClearTimeoutKeepsPending(tm) == tm

\* ------------------------------------- wsHandler: after the user lookup
\* clearTimeout: a timer that has not fired yet never fires
ClearTimeout(tm) == IF tm = "pending" THEN "cleared" ELSE tm

\* the reply of the auth branch once the lookup has settled
AuthReply(o) ==
  CASE o = "found" -> "auth.ok"
    [] o = "notfound" -> "auth.nouser"
    [] o = "throw" -> "auth.invalid"

AuthResume(t) ==
  LET s == t.sock IN
  /\ t \in tasks /\ t.kind = "auth"
  /\ tasks' = tasks \ {t}
  /\ \E o \in {UserLookup(t.user), "throw"} :
       /\ hist' = [hist EXCEPT ![t.id.src][t.id.k].reply = AuthReply(o)]
       /\ IF o = "found"
          THEN /\ authTimeout' = [authTimeout EXCEPT ![s] = ClearTimeout(@)]
               /\ authenticated' = [authenticated EXCEPT ![s] = TRUE]
               /\ userId' = [userId EXCEPT ![s] = t.user]
               /\ socketMap' = [socketMap EXCEPT ![s] = Conn(s, t.user, t.id)]
               /\ connections' = AddConnection(connections, Conn(s, t.user, t.id))
               /\ outbox' = Send(outbox, s, AuthOk(t.id))
          ELSE /\ outbox' = Send(outbox, s, AuthError(AuthReply(o), t.id))
               /\ UNCHANGED <<authTimeout, authenticated, userId, socketMap, connections>>
  /\ UNCHANGED <<readyState, errored, closeCode, db, sendFault, profile, clientVars>>

\* ----------------------------------- wsHandler: after the service call
\* variant: the broadcast is made before the ack is sent
SuccessRepliesBroadcastFirst(ob, t, res, u, at) ==
  LET sent == BroadcastToUser(ob, u, Event(WsEventType(t.kind), res, t.id), at) IN
  IF at = 0
  THEN Send(sent, t.sock, AckOk(t.rid, res, t.id))
  ELSE Send(sent, t.sock, AckErr(t.rid, "INTERNAL_ERROR", t.id))

\* the frames sent after a successful mutation: the ack to the originating
\* socket, then the broadcast to the group of the closure's userId; when the
\* broadcast throws at position at, the catch block sends a second ack
SuccessReplies(ob, t, res, u, at) ==
  LET acked == Send(ob, t.sock, AckOk(t.rid, res, t.id))
      sent == BroadcastToUser(acked, u, Event(WsEventType(t.kind), res, t.id), at) IN
  IF at = 0 THEN sent ELSE Send(sent, t.sock, AckErr(t.rid, "INTERNAL_ERROR", t.id))

\* the frames sent when the service returned null
NotFoundReplies(ob, t) == Send(ob, t.sock, AckErr(t.rid, "NOT_FOUND", t.id))

\* variant: the catch block only logs
ErrorRepliesSilent(ob, t) == ob

\* the frames sent by the catch block when the service call threw
ErrorReplies(ob, t) == Send(ob, t.sock, AckErr(t.rid, "INTERNAL_ERROR", t.id))

CommandResume(t) ==
  LET s == t.sock IN
  /\ t \in tasks /\ t.via = "ws" /\ t.kind \in CmdTypes
  /\ tasks' = tasks \ {t}
  /\ \E fails \in BOOLEAN :
       LET r == ServiceCall(db, t, fails) IN
       /\ db' = r.rows
       /\ \E at \in (IF r.out = "ok" THEN ThrowPoints(userId[s]) ELSE {0}) :
            /\ outbox' = CASE r.out = "ok" -> SuccessReplies(outbox, t, r.res, userId[s], at)
                           [] r.out = "null" -> NotFoundReplies(outbox, t)
                           [] r.out = "throw" -> ErrorReplies(outbox, t)
            /\ hist' = IF r.out = "ok"
                       THEN [hist EXCEPT ![t.id.src][t.id.k].out = "ok",
                                         ![t.id.src][t.id.k].bcasts = @ + 1,
                                         ![t.id.src][t.id.k].bcastUser = userId[s],
                                         ![t.id.src][t.id.k].reply = IF at = 0 THEN "ok" ELSE "ok+error"]
                       ELSE [hist EXCEPT ![t.id.src][t.id.k].out = r.out,
                                         ![t.id.src][t.id.k].reply = r.out]
  /\ UNCHANGED <<readyState, errored, closeCode, authenticated, userId, authTimeout,
                 connections, socketMap, sendFault, profile, clientVars>>

\* variant: the timer callback sends auth.error and leaves the socket open
AuthTimeoutFireNoClose(s) ==
  /\ authTimeout[s] = "pending"
  /\ authTimeout' = [authTimeout EXCEPT ![s] = "fired"]
  /\ IF ~authenticated[s]
     THEN outbox' = Send(outbox, s, AuthError("timeout", [src |-> s, k |-> 0]))
     ELSE UNCHANGED outbox
  /\ UNCHANGED <<readyState, closeCode, errored, authenticated, userId, connections, socketMap, db, tasks, hist, sendFault, profile, clientVars>>

\* ------------------------------------------------ wsHandler: authTimeout
AuthTimeoutFire(s) ==
  /\ authTimeout[s] = "pending"
  /\ authTimeout' = [authTimeout EXCEPT ![s] = "fired"]
  /\ IF ~authenticated[s]
     THEN /\ outbox' = Send(outbox, s, AuthError("timeout", [src |-> s, k |-> 0]))
          /\ readyState' = [readyState EXCEPT ![s] = IF @ = "OPEN" THEN "CLOSING" ELSE @]
          /\ closeCode' = [closeCode EXCEPT ![s] = IF readyState[s] = "OPEN" THEN TIMEOUT_CLOSE_CODE ELSE @]
     ELSE UNCHANGED <<outbox, readyState, closeCode>>
  /\ UNCHANGED <<errored, authenticated, userId, connections, socketMap, db, tasks, hist, sendFault, profile, clientVars>>

\* ------------------------------------- wsHandler: close / error handlers
\* the 'close' event: the peer closed, or the closing handshake finished
CloseEvent(s) ==
  /\ readyState[s] \in {"OPEN", "CLOSING"}
  /\ readyState' = [readyState EXCEPT ![s] = "CLOSED"]
  /\ authTimeout' = [authTimeout EXCEPT ![s] = ClearTimeout(@)]
  /\ connections' = RemoveConnection(connections, socketMap, s)
  /\ UNCHANGED <<errored, closeCode, authenticated, userId, socketMap, db, tasks, outbox, hist, sendFault, profile, clientVars>>

\* the 'error' event: the transport failed; ws emits 'close' afterwards
ErrorEvent(s) ==
  /\ readyState[s] = "OPEN"
  /\ ~errored[s]
  /\ errored' = [errored EXCEPT ![s] = TRUE]
  /\ readyState' = [readyState EXCEPT ![s] = "CLOSING"]
  /\ authTimeout' = [authTimeout EXCEPT ![s] = ClearTimeout(@)]
  /\ connections' = RemoveConnection(connections, socketMap, s)
  /\ UNCHANGED <<closeCode, authenticated, userId, socketMap, db, tasks, outbox, hist, sendFault, profile, clientVars>>

\* ------------------------------------------------------------ REST routes
\* the mutation requests: route, :id (0: none) and body
RestRequests ==
  {<<op, 0, "ok">> : op \in CreateOps}
  \cup {<<"todo.create", 0, "bad">>}
  \cup {<<op, 1, "ok">> : op \in {"todo.update", "todo.complete", "todo.delete"}}
  \cup {<<op, MaxEntities, "ok">> : op \in {"diary.delete", "mood.delete"}}

\* the requests of the narrow profiles
SessionRestRequests == {<<"diary.create", 0, "ok">>}

RestRequestsIn(p) == IF p = "mixed" THEN RestRequests ELSE SessionRestRequests

\* the users REST callers act for
RestUsersIn(p) == IF p = "mixed" THEN Users ELSE {"u1"}

\* whether the route handler calls broadcastToUser after a successful call
RestBroadcasts(op) == op \notin DeleteOps

\* the event type the route handler broadcasts
RestEventType(op) ==
  CASE op = "todo.create" -> "event.todo.created"
    [] op = "todo.update" -> "event.todo.updated"
    [] op = "todo.complete" -> "event.todo.completed"
    [] op = "diary.create" -> "event.diary.created"
    [] op = "mood.log" -> "event.mood.logged"
    [] OTHER -> NULL

\* an authenticated request (authContext.userId = u) reaches a mutation route;
\* a body that fails the zod schema is answered 400 without a service call
RestRequest(u, op, i, data) ==
  LET rid == NextId("rest")
      f == Frame(op, NULL, NULL, "none", i, data) IN
  /\ InputCount < Budget(profile)
  /\ op \in CreateOps /\ data = "ok" => Planned < MaxEntities
  /\ IF data = "bad"
     THEN /\ hist' = [hist EXCEPT !["rest"] = Append(@, [Hist("rest", NULL, f, TRUE, u) EXCEPT !.reply = "400"])]
          /\ tasks' = tasks
     ELSE /\ hist' = [hist EXCEPT !["rest"] = Append(@, [Hist("rest", NULL, f, TRUE, u) EXCEPT !.calls = 1, !.callUser = u])]
          /\ tasks' = tasks \cup {Task(rid, "rest", NULL, op, u, 0, i, data)}
  /\ UNCHANGED <<readyState, errored, closeCode, authenticated, userId, authTimeout,
                 connections, socketMap, db, outbox, sendFault, profile, clientVars>>

\* the status a route answers after a successful service call
RestStatus(op) ==
  IF op \in CreateOps THEN "201" ELSE IF op \in DeleteOps THEN "204" ELSE "200"

\* the route handler after its service call
RestResume(t) ==
  /\ t \in tasks /\ t.via = "rest"
  /\ tasks' = tasks \ {t}
  /\ \E fails \in BOOLEAN :
       LET r == ServiceCall(db, t, fails)
           bc == r.out = "ok" /\ RestBroadcasts(t.kind) IN
       /\ db' = r.rows
       /\ \E at \in (IF bc THEN ThrowPoints(t.user) ELSE {0}) :
            IF bc
            THEN /\ outbox' = BroadcastToUser(outbox, t.user, Event(RestEventType(t.kind), r.res, t.id), at)
                 /\ hist' = [hist EXCEPT ![t.id.src][t.id.k].out = "ok",
                                         ![t.id.src][t.id.k].bcasts = @ + 1,
                                         ![t.id.src][t.id.k].bcastUser = t.user,
                                         ![t.id.src][t.id.k].reply = IF at = 0 THEN RestStatus(t.kind) ELSE "500"]
            ELSE /\ outbox' = outbox
                 /\ hist' = [hist EXCEPT ![t.id.src][t.id.k].out = r.out,
                                         ![t.id.src][t.id.k].reply =
                                           CASE r.out = "ok" -> RestStatus(t.kind)
                                             [] r.out = "null" -> "404"
                                             [] r.out = "throw" -> "500"]
  /\ UNCHANGED <<readyState, errored, closeCode, authenticated, userId, authTimeout,
                 connections, socketMap, sendFault, profile, clientVars>>

\* ------------------------------------- WSConnectionManager, called directly
\* (the public methods of the exported singleton under arbitrary call
\* sequences; hist keeps the calls, those of broadcastToUser under "rest")
Call(method, s, u, result) ==
  [Hist("api", s, Frame(method, NULL, u, "none", 0, NULL), FALSE, NULL) EXCEPT !.reply = result]

AddConnectionCall(s, u) ==
  LET c == Conn(s, u, NextId(s)) IN
  /\ InputCount < Budget(profile)
  /\ socketMap' = [socketMap EXCEPT ![s] = c]
  /\ connections' = AddConnection(connections, c)
  /\ hist' = [hist EXCEPT ![s] = Append(@, Call("addConnection", s, u, "returned"))]
  /\ UNCHANGED <<readyState, errored, closeCode, authenticated, userId, authTimeout,
                 db, tasks, outbox, sendFault, profile, clientVars>>

RemoveConnectionCall(s) ==
  /\ InputCount < Budget(profile)
  /\ connections' = RemoveConnection(connections, socketMap, s)
  /\ hist' = [hist EXCEPT ![s] = Append(@, Call("removeConnection", s, NULL, "returned"))]
  /\ UNCHANGED <<readyState, errored, closeCode, authenticated, userId, authTimeout,
                 socketMap, db, tasks, outbox, sendFault, profile, clientVars>>

BroadcastToUserCall(u) ==
  LET m == Event("event.mood.logged", NoEntity, NextId("rest")) IN
  /\ InputCount < Budget(profile)
  /\ \E at \in ThrowPoints(u) :
       /\ outbox' = BroadcastToUser(outbox, u, m, at)
       /\ hist' = [hist EXCEPT !["rest"] =
                     Append(@, Call("broadcastToUser", NULL, u, IF at = 0 THEN "returned" ELSE "throw"))]
  /\ connections' = AfterBroadcast(connections, u)
  /\ UNCHANGED <<readyState, errored, closeCode, authenticated, userId, authTimeout,
                 socketMap, db, tasks, sendFault, profile, clientVars>>

\* wsConnectionManager.send(s, m)
SendCall(s) ==
  LET m == Event("event.todo.updated", NoEntity, NextId(s)) IN
  /\ InputCount < Budget(profile)
  /\ outbox' = Send(outbox, s, m)
  /\ hist' = [hist EXCEPT ![s] = Append(@, Call("send", s, NULL, "returned"))]
  /\ UNCHANGED <<readyState, errored, closeCode, authenticated, userId, authTimeout,
                 connections, socketMap, db, tasks, sendFault, profile, clientVars>>

\* the transport of a socket goes OPEN -> CLOSING -> CLOSED
TransportClose(s) ==
  /\ readyState[s] \in {"OPEN", "CLOSING"}
  /\ readyState' = [readyState EXCEPT ![s] = IF @ = "OPEN" THEN "CLOSING" ELSE "CLOSED"]
  /\ UNCHANGED <<errored, closeCode, authenticated, userId, authTimeout, connections,
                 socketMap, db, tasks, outbox, hist, sendFault, profile, clientVars>>

\* ------------------------------------------- web client: WebSocketProvider
\* the values useAuth() can return: nobody logged in, a stored token whose
\* user is not loaded yet, a logged-in user
AccessTokens == {"t1", "t2"}

AuthStates == {<<NULL, FALSE>>} \cup {<<tk, a>> : tk \in AccessTokens, a \in BOOLEAN}

\* new WebSocket(wsUrl) made by the connect callback of a render whose
\* closure holds accessToken tk and isAuthenticated a
WebSocket(tk, a) == [readyState |-> "CONNECTING", accessToken |-> tk, isAuthenticated |-> a]

\* connect() of that render: the WebSocket objects and wsRef.current afterwards
ConnectSockets(socks, tk, a) ==
  IF tk = NULL \/ ~a THEN socks ELSE Append(socks, WebSocket(tk, a))

ConnectRef(socks, ref, tk, a) ==
  IF tk = NULL \/ ~a THEN ref ELSE Len(socks) + 1

\* WebSocket.close()
CloseWebSocket(w) ==
  IF w.readyState \in {"CONNECTING", "OPEN"} THEN [w EXCEPT !.readyState = "CLOSING"] ELSE w

\* the cleanup of the connect effect: clearTimeout(reconnectTimeoutRef.current),
\* wsRef.current.close(), wsRef.current = null
CleanupTimers(tm, tref) == tm \ {tref}

CleanupSockets(socks, ref) ==
  IF ref = 0 THEN socks ELSE [socks EXCEPT ![ref] = CloseWebSocket(@)]

\* useAuth() returns new values (login, token change, logout): the cleanup
\* of the previous effect runs, then the effect of the new render
AuthChange(tk, a) ==
  LET closed == CleanupSockets(webSockets, wsRef) IN
  /\ profile = "client"
  /\ <<tk, a>> # <<accessToken, isAuthenticated>>
  /\ Len(ConnectSockets(closed, tk, a)) <= MaxWebSockets
  /\ accessToken' = tk
  /\ isAuthenticated' = a
  /\ timers' = CleanupTimers(timers, reconnectTimeoutRef)
  /\ webSockets' = ConnectSockets(closed, tk, a)
  /\ wsRef' = ConnectRef(closed, 0, tk, a)
  /\ UNCHANGED <<reconnectTimeoutRef, serverVars>>

\* the connection of WebSocket w is established (ws.onopen sends the auth frame)
WebSocketOpens(w) ==
  /\ profile = "client"
  /\ w \in 1..Len(webSockets)
  /\ webSockets[w].readyState = "CONNECTING"
  /\ webSockets' = [webSockets EXCEPT ![w].readyState = "OPEN"]
  /\ UNCHANGED <<accessToken, isAuthenticated, wsRef, reconnectTimeoutRef, timers, serverVars>>

\* ws.onmessage with auth.error: ws.close()
WebSocketAuthError(w) ==
  /\ profile = "client"
  /\ w \in 1..Len(webSockets)
  /\ webSockets[w].readyState = "OPEN"
  /\ webSockets' = [webSockets EXCEPT ![w] = CloseWebSocket(@)]
  /\ UNCHANGED <<accessToken, isAuthenticated, wsRef, reconnectTimeoutRef, timers, serverVars>>

\* ws.onclose of WebSocket w: the connection failed, the server or the
\* network closed it, or a closing handshake finished
WebSocketCloses(w) ==
  /\ profile = "client"
  /\ w \in 1..Len(webSockets)
  /\ webSockets[w].readyState # "CLOSED"
  /\ webSockets' = [webSockets EXCEPT ![w].readyState = "CLOSED"]
  /\ wsRef' = 0
  /\ IF webSockets[w].isAuthenticated
     THEN /\ timers' = timers \cup {w}
          /\ reconnectTimeoutRef' = w
     ELSE UNCHANGED <<timers, reconnectTimeoutRef>>
  /\ UNCHANGED <<accessToken, isAuthenticated, serverVars>>

\* the reconnect timer set by the onclose of WebSocket t fires: connect() of
\* the render that created t
ReconnectTimerFires(t) ==
  /\ profile = "client"
  /\ t \in timers
  /\ Len(webSockets) < MaxWebSockets
  /\ timers' = timers \ {t}
  /\ webSockets' = ConnectSockets(webSockets, webSockets[t].accessToken, webSockets[t].isAuthenticated)
  /\ wsRef' = ConnectRef(webSockets, wsRef, webSockets[t].accessToken, webSockets[t].isAuthenticated)
  /\ UNCHANGED <<accessToken, isAuthenticated, reconnectTimeoutRef, serverVars>>

\* ------------------------------------------------------------------ spec
Next ==
  \/ \E s \in Sockets : Connect(s)
  \/ \E s \in Sockets, f \in FramesIn(profile) : MessageSync(s, f)
  \/ \E s \in Sockets, f \in FramesIn(profile) : MessageAuth(s, f)
  \/ \E s \in Sockets, f \in FramesIn(profile) : MessageCommand(s, f)
  \/ \E t \in tasks : AuthResume(t)
  \/ \E t \in tasks : CommandResume(t)
  \/ \E s \in Sockets : AuthTimeoutFire(s)
  \/ \E s \in Sockets : CloseEvent(s)
  \/ \E s \in Sockets : ErrorEvent(s)
  \/ \E u \in RestUsersIn(profile), r \in RestRequestsIn(profile) : RestRequest(u, r[1], r[2], r[3])
  \/ \E t \in tasks : RestResume(t)

Spec == Init /\ [][Next]_vars

SpecSendFault == InitSendFault /\ [][Next]_vars

SpecSessions == InitSessions /\ [][Next]_vars

SpecIdentities == InitIdentities /\ [][Next]_vars

\* the timers of the event loop fire and the awaited user lookups settle
Fairness ==
  /\ \A s \in Sockets : WF_vars(AuthTimeoutFire(s))
  /\ WF_vars(\E t \in tasks : AuthResume(t))

SpecLive == Init /\ [][Next]_vars /\ Fairness

SpecOrdering == InitOrdering /\ [][Next]_vars

SpecPipeline == InitPipeline /\ [][Next]_vars

SpecIsolation == InitIsolation /\ [][Next]_vars

NextClient ==
  \/ \E st \in AuthStates : AuthChange(st[1], st[2])
  \/ \E w \in 1..MaxWebSockets : WebSocketOpens(w)
  \/ \E w \in 1..MaxWebSockets : WebSocketAuthError(w)
  \/ \E w \in 1..MaxWebSockets : WebSocketCloses(w)
  \/ \E t \in 1..MaxWebSockets : ReconnectTimerFires(t)

SpecClient == InitClient /\ [][NextClient]_vars

\* pending timers fire, connections get established and a closing handshake
\* comes to its end
ClientFairness ==
  /\ \A t \in 1..MaxWebSockets : WF_vars(ReconnectTimerFires(t))
  /\ \A w \in 1..MaxWebSockets : WF_vars(WebSocketOpens(w))
  /\ \A w \in 1..MaxWebSockets :
       WF_vars(w \in 1..Len(webSockets) /\ webSockets[w].readyState = "CLOSING" /\ WebSocketCloses(w))

SpecClientLive == InitClient /\ [][NextClient]_vars /\ ClientFairness

NextRegistry ==
  \/ \E s \in Sockets, u \in Users : AddConnectionCall(s, u)
  \/ \E s \in Sockets : RemoveConnectionCall(s)
  \/ \E u \in Users : BroadcastToUserCall(u)
  \/ \E s \in Sockets : SendCall(s)
  \/ \E s \in Sockets : TransportClose(s)

SpecRegistry == InitRegistry /\ [][NextRegistry]_vars

\* ------------------------------------------------------------ properties
\* ids of the frames received so far on the sockets of S
FrameIds(S) == UNION {{[src |-> s, k |-> k] : k \in 1..Len(hist[s])} : s \in S}

WsFrameIds == FrameIds(Sockets)

InputIds == FrameIds(Sockets \cup {"rest"})

\* the history entry of an input
H(id) == hist[id.src][id.k]

\* the handler of the input is suspended at its await
InFlight(id) == \E t \in tasks : t.id = id

EventTypes ==
  {"event.todo.created", "event.todo.updated", "event.todo.completed",
   "event.diary.created", "event.mood.logged"}

IsEvent(m) == m.type \in EventTypes

IsAck(m) == m.type = "ack"

\* what the server sent on socket s because of input id, in sending order
SentTo(s, id) == SelectSeq(outbox[s], LAMBDA m : m.cause = id)

Acks(s, id) == SelectSeq(SentTo(s, id), IsAck)

Events(s, id) == SelectSeq(SentTo(s, id), IsEvent)

\* the event of a mutation as the API documentation lists it
DocumentedEvent(op) ==
  CASE op = "todo.create" -> "event.todo.created"
    [] op = "todo.update" -> "event.todo.updated"
    [] op = "todo.complete" -> "event.todo.completed"
    [] op = "diary.create" -> "event.diary.created"
    [] op = "mood.log" -> "event.mood.logged"
    [] OTHER -> "event.undocumented"

\* socket s is in no group of the registry
Unregistered(s) ==
  \A u \in DOMAIN connections : \A i \in 1..Len(connections[u]) : connections[u][i].socket # s

\* C1: a command frame that arrives on a socket before that socket's
\* authentication has succeeded never causes a call to a storage service
\* and never produces an ack with ok:true, on any socket.
C1_NoCommandBeforeAuth ==
  \A id \in WsFrameIds :
    (~H(id).authed /\ H(id).frame.type \in CmdTypes \cup {"command"}) =>
      /\ H(id).calls = 0
      /\ H(id).out = "none"
      /\ ~InFlight(id)
      /\ \A s \in Sockets : \A i \in 1..Len(Acks(s, id)) : ~Acks(s, id)[i].ok

\* a command frame was refused before authentication and the same socket
\* authenticated afterwards
C1_Witness ==
  \E id \in WsFrameIds :
    /\ ~H(id).authed
    /\ H(id).frame.type = "command"
    /\ H(id).reply = "auth.format"
    /\ authenticated[id.src]

\* C2: every command frame handled by an authenticated session whose socket
\* stays open produces exactly one ack on that socket, carrying the frame's
\* requestId, also when the mutation or the following broadcast throws.
C2_ExactlyOneAck ==
  \A id \in WsFrameIds :
    (/\ H(id).authed
     /\ H(id).frame.type \in CmdTypes
     /\ ~InFlight(id)
     /\ readyState[id.src] = "OPEN") =>
      /\ Len(Acks(id.src, id)) = 1
      /\ Acks(id.src, id)[1].requestId = RequestIdOf(H(id).frame, id.k)

C4_OthersGetEventOnce ==
  \A id \in WsFrameIds :
    (H(id).frame.type \in CmdTypes /\ H(id).out = "ok") =>
      \A b \in Sockets \ {id.src} :
        /\ Len(Acks(b, id)) = 0
        /\ Len(Events(b, id)) <= 1

\* C5: a mutation made through REST and the same mutation made through the
\* matching WebSocket command produce the same event: the documented type,
\* the entity the service returned, broadcast once to the group of the user
\* the mutation was made for.
C5_SameEventBothPaths ==
  \A id \in InputIds :
    (H(id).frame.type \in CmdTypes /\ H(id).out = "ok") =>
      /\ H(id).bcasts = 1
      /\ H(id).bcastUser = H(id).callUser
      /\ \A s \in Sockets : \A i \in 1..Len(Events(s, id)) :
           LET m == Events(s, id)[i] IN
           /\ m = Event(DocumentedEvent(H(id).frame.type), m.data, id)
           /\ m.data.kind = TableOf(H(id).frame.type)
           /\ m.data.userId = H(id).callUser

\* C6: every path that changes todo, diary or mood state (WebSocket commands
\* and REST create, update, complete and delete) calls broadcastToUser
\* exactly once per successful mutation and never before storage returned.
C6_EveryMutationBroadcasts ==
  \A id \in InputIds :
    /\ H(id).out = "ok" => H(id).bcasts = 1
    /\ H(id).out # "ok" => H(id).bcasts = 0

\* C7: a todo.update or todo.complete whose todoId does not exist or belongs
\* to another user produces one ack with ok:false and code NOT_FOUND on the
\* originating socket and no broadcast to any socket.
C7_NotFound ==
  \A id \in WsFrameIds :
    LET h == H(id)
        s == id.src
        i == h.frame.todoId IN
    (/\ h.frame.type \in {"todo.update", "todo.complete"}
     /\ h.calls = 1
     /\ ~InFlight(id)
     /\ h.out # "throw"
     /\ (i \notin 1..Len(db) \/ db[i].kind # "todo" \/ db[i].owner # h.callUser)) =>
      /\ h.out = "null"
      /\ h.bcasts = 0
      /\ \A s2 \in Sockets : Len(Events(s2, id)) = 0
      /\ \A s2 \in Sockets \ {s} : Len(SentTo(s2, id)) = 0
      /\ Len(SentTo(s, id)) <= 1
      /\ readyState[s] = "OPEN" =>
           SentTo(s, id) = <<AckErr(RequestIdOf(h.frame, id.k), "NOT_FOUND", id)>>

\* a session updated or completed the todo of another user and got NOT_FOUND
C7_Witness ==
  \E id \in WsFrameIds :
    LET h == H(id) IN
    /\ h.frame.type \in {"todo.update", "todo.complete"}
    /\ h.out = "null"
    /\ h.frame.todoId \in 1..Len(db)
    /\ db[h.frame.todoId].owner # h.callUser
    /\ db[h.frame.todoId].live
    /\ Len(SentTo(id.src, id)) = 1

\* C8: once the auth deadline has expired on an unauthenticated session the
\* socket is closed with code 4001 and nothing of that socket is processed
\* any more: it never becomes authenticated, it is never registered and no
\* storage call is made for it.
C8_TimeoutIsFinal ==
  \A s \in Sockets :
    authTimeout[s] = "fired" =>
      /\ readyState[s] \in {"CLOSING", "CLOSED"}
      /\ closeCode[s] = TIMEOUT_CLOSE_CODE
      /\ ~authenticated[s]
      /\ socketMap[s] = NoConn
      /\ Unregistered(s)
      /\ \A k \in 1..Len(hist[s]) : hist[s][k].calls = 0

\* C9: an auth frame with the service token and no userId always fails: the
\* server replies auth.error, the frame authenticates nothing and registers
\* nothing.
C9_ServiceTokenAloneFails ==
  \A id \in WsFrameIds :
    LET h == H(id)
        s == id.src IN
    (/\ h.frame.type = "auth"
     /\ h.frame.token = SERVICE_TOKEN
     /\ h.frame.userId = NULL
     /\ ~h.authed) =>
      /\ ~InFlight(id)
      /\ h.reply \notin {"auth.ok", "none"}
      /\ h.calls = 0
      /\ socketMap[s].cid # id
      /\ \A u \in DOMAIN connections : \A i \in 1..Len(connections[u]) : connections[u][i].cid # id
      /\ \A s2 \in Sockets : \A i \in 1..Len(SentTo(s2, id)) : SentTo(s2, id)[i].type = "auth.error"
      /\ readyState[s] = "OPEN" => Len(SentTo(s, id)) = 1

\* the service token alone was refused on an open socket
C9_Witness ==
  \E id \in WsFrameIds :
    /\ H(id).frame.type = "auth"
    /\ H(id).frame.token = SERVICE_TOKEN
    /\ H(id).frame.userId = NULL
    /\ ~H(id).authed
    /\ readyState[id.src] = "OPEN"
    /\ ~authenticated[id.src]
    /\ Len(SentTo(id.src, id)) = 1

\* C10: an auth frame with the service token and the userId of an existing
\* user succeeds: the deadline timer is cancelled, the session is
\* authenticated as that user, the socket is registered under it and auth.ok
\* is sent.
C10_ServiceTokenWithUserSucceeds ==
  \A id \in WsFrameIds :
    LET h == H(id)
        s == id.src IN
    (/\ h.frame.type = "auth"
     /\ h.frame.token = SERVICE_TOKEN
     /\ h.frame.userId \in Users
     /\ ~h.authed
     /\ ~InFlight(id)
     /\ readyState[s] = "OPEN") =>
      /\ authenticated[s]
      /\ authTimeout[s] = "cleared"
      /\ socketMap[s].userId = h.frame.userId
      /\ ~Unregistered(s)
      /\ \E i \in 1..Len(SentTo(s, id)) : SentTo(s, id)[i].type = "auth.ok"

\* C11: an authenticated client that sends todo.create with a valid data
\* payload and any non-empty requestId (for example "r1") receives an ack
\* with that requestId, ok:true and the created todo, followed by
\* event.todo.created.
C11_TodoCreateAnyRequestId ==
  \A id \in WsFrameIds :
    LET h == H(id)
        sent == SentTo(id.src, id) IN
    (/\ h.authed
     /\ h.frame.type = "todo.create"
     /\ h.frame.data = "ok"
     /\ h.frame.rid # "none"
     /\ ~InFlight(id)
     /\ h.out # "throw"
     /\ readyState[id.src] = "OPEN") =>
      /\ h.out = "ok"
      /\ Len(sent) >= 2
      /\ sent[1] = AckOk(id.k, sent[1].data, id)
      /\ sent[1].data.kind = "todo"
      /\ sent[2] = Event("event.todo.created", sent[1].data, id)

\* ---- registry calls
\* positions of the addConnection / removeConnection calls made for socket s
AddsOf(s) == {k \in 1..Len(hist[s]) : hist[s][k].frame.type = "addConnection"}

RemovesOf(s) == {k \in 1..Len(hist[s]) : hist[s][k].frame.type = "removeConnection"}

\* socket s was registered for u and removeConnection(s) was not called since
RegisteredFor(s, u) ==
  \E k \in AddsOf(s) :
    /\ hist[s][k].frame.userId = u
    /\ \A j \in RemovesOf(s) : j < k

\* this step is a call of removeConnection(s) / of broadcastToUser
IsRemoveStep(s) ==
  /\ Len(hist'[s]) = Len(hist[s]) + 1
  /\ hist'[s][Len(hist'[s])].frame.type = "removeConnection"

IsBroadcastStep ==
  /\ Len(hist'["rest"]) = Len(hist["rest"]) + 1
  /\ hist'["rest"][Len(hist'["rest"])].frame.type = "broadcastToUser"

\* the call this broadcast step logs
BroadcastStepCall == hist'["rest"][Len(hist'["rest"])]

\* the frames a step appended to the outbox of s
Appended(s) == SubSeq(outbox'[s], Len(outbox[s]) + 1, Len(outbox'[s]))

\* connections of socket s in the group of u
ConnectionsOf(s, u) == {i \in 1..Len(Group(u)) : Group(u)[i].socket = s}

\* C12: after any sequence of addConnection and removeConnection calls a
\* userId is a key of the connections map if and only if its set of
\* connections is non-empty.
C12_KeyIffNonEmpty ==
  /\ \A u \in DOMAIN connections : Len(connections[u]) > 0
  /\ \A u \in Users : HasKey(connections, u) <=> GetConnectionCount(u) > 0
  /\ \A u \in Users : (\E s \in Sockets : ConnectionsOf(s, u) # {}) <=> HasKey(connections, u)

\* the only connection of a user was removed and the key went with it
C12_Witness ==
  \E s \in Sockets :
    /\ AddsOf(s) # {} /\ RemovesOf(s) # {}
    /\ socketMap[s] # NoConn
    /\ ~HasKey(connections, socketMap[s].userId)
    /\ DOMAIN connections # {}

\* C13: when each socket is registered at most once, getConnectionCount(u)
\* is the number of sockets registered for u and not yet removed, never
\* negative, and getTotalConnections is the sum over all users.
C13_CountsMatch ==
  (\A s \in Sockets : Cardinality(AddsOf(s)) <= 1) =>
    /\ \A u \in Users :
         /\ GetConnectionCount(u) = Cardinality({s \in Sockets : RegisteredFor(s, u)})
         /\ GetConnectionCount(u) >= 0
    /\ GetTotalConnections = Cardinality({s \in Sockets : \E u \in Users : RegisteredFor(s, u)})
    /\ GetTotalConnections = SumLen([u \in Users |-> Group(u)], Users)

\* two sockets were registered once each for one user and one was removed
C13_Witness ==
  \E u \in Users :
    /\ \A s \in Sockets : Cardinality(AddsOf(s)) = 1 /\ hist[s][1].frame.userId = u
    /\ \E s \in Sockets : RemovesOf(s) # {}
    /\ GetConnectionCount(u) = 1

\* C14: removeConnection on a socket that was never registered, and a
\* further removeConnection on a socket already removed, leave the registry
\* unchanged, also when other sockets of the user were registered in between.
C14_RemoveIdempotent ==
  [][\A s \in Sockets :
       (/\ IsRemoveStep(s)
        /\ \/ AddsOf(s) = {}
           \/ hist[s][Len(hist[s])].frame.type = "removeConnection") =>
         /\ connections' = connections
         /\ socketMap' = socketMap]_vars

\* a socket was removed twice while the other socket is registered for the same user
C14_Witness ==
  \E s \in Sockets :
    /\ Len(hist[s]) >= 3
    /\ hist[s][1].frame.type = "addConnection"
    /\ hist[s][Len(hist[s])].frame.type = "removeConnection"
    /\ hist[s][Len(hist[s]) - 1].frame.type = "removeConnection"
    /\ \E s2 \in Sockets \ {s} : RegisteredFor(s2, hist[s][1].frame.userId)
    /\ GetConnectionCount(hist[s][1].frame.userId) = 1

\* C15: a broadcastToUser(u, m) that returns sends the same payload m to
\* exactly the sockets in u's group whose readyState is OPEN; closing and
\* closed sockets and sockets outside the group get nothing.
C15_BroadcastToOpenSockets ==
  [][(IsBroadcastStep /\ BroadcastStepCall.reply = "returned") =>
       LET u == BroadcastStepCall.frame.userId
           m == Event("event.mood.logged", NoEntity, NextId("rest")) IN
       \A s \in Sockets :
         /\ Len(outbox'[s]) >= Len(outbox[s])
         /\ SubSeq(outbox'[s], 1, Len(outbox[s])) = outbox[s]
         /\ \A i \in 1..Len(Appended(s)) : Appended(s)[i] = m
         /\ Len(Appended(s)) > 0 <=> (readyState[s] = "OPEN" /\ ConnectionsOf(s, u) # {})
         /\ Cardinality(ConnectionsOf(s, u)) = 1 => Len(Appended(s)) <= 1]_vars

\* a broadcast reached an open socket of the group while the other socket of
\* the group was no longer open and got nothing
C15_Witness ==
  \E u \in Users, s \in Sockets, s2 \in Sockets :
    /\ s # s2
    /\ ConnectionsOf(s, u) # {} /\ ConnectionsOf(s2, u) # {}
    /\ readyState[s] = "OPEN" /\ readyState[s2] # "OPEN"
    /\ Len(outbox[s]) = 1 /\ Len(outbox[s2]) = 0
    /\ Len(hist["rest"]) = 1
    /\ hist["rest"][1].reply = "returned"
    /\ hist["rest"][1].frame.userId = u

\* C16: broadcastToUser for a user who has no registered connection
\* performs zero sends and raises no error.
C16_BroadcastToNobody ==
  [][(IsBroadcastStep /\ ~HasKey(connections, BroadcastStepCall.frame.userId)) =>
       /\ outbox' = outbox
       /\ BroadcastStepCall.reply = "returned"]_vars

\* broadcastToUser was called for a user without connections while the other
\* user has an open one and sends can fail
C16_Witness ==
  \E u \in Users :
    /\ Len(hist["rest"]) >= 1
    /\ hist["rest"][Len(hist["rest"])].frame.type = "broadcastToUser"
    /\ hist["rest"][Len(hist["rest"])].frame.userId = u
    /\ \A s \in Sockets : \A k \in AddsOf(s) : hist[s][k].frame.userId # u
    /\ \E s \in Sockets : readyState[s] = "OPEN" /\ ~Unregistered(s)
    /\ sendFault

\* ---- sessions and the registry
\* C17: each Connection in the registry belongs to a socket whose
\* authentication succeeded and whose close or error event has not been
\* handled; after its close or error event a socket is in no user group.
C17_RegistryHoldsLiveSessions ==
  \A u \in DOMAIN connections : \A i \in 1..Len(connections[u]) :
    LET s == connections[u][i].socket IN
    /\ authenticated[s]
    /\ readyState[s] # "CLOSED"
    /\ ~errored[s]

\* C18: on every socket authentication succeeds at most once: addConnection
\* is called at most once for it and at most one auth.ok is sent to it, also
\* for two auth frames sent back to back.
C18_AuthSucceedsOnce ==
  \A s \in Sockets :
    /\ Cardinality({k \in 1..Len(hist[s]) : hist[s][k].reply = "auth.ok"}) <= 1
    /\ Cardinality({i \in 1..Len(outbox[s]) : outbox[s][i].type = "auth.ok"}) <= 1

\* the auth frames of socket s that succeeded
SucceededAuths(s) ==
  {k \in 1..Len(hist[s]) : hist[s][k].frame.type = "auth" /\ hist[s][k].reply = "auth.ok"}

\* C19: every storage call made for a command frame on socket s is made
\* with the user that s's successful authentication resolved, and the
\* broadcast that follows targets that same user.
C19_CommandsRunAsSessionUser ==
  \A id \in WsFrameIds :
    LET h == H(id) IN
    (h.frame.type \in CmdTypes /\ h.calls = 1) =>
      /\ \E k \in SucceededAuths(id.src) :
           k < id.k /\ JwtVerify(hist[id.src][k].frame.token).sub = h.callUser
      /\ h.out = "ok" => h.bcastUser = h.callUser

\* the replies of a failed authentication attempt
FailedAuthReplies == {"auth.format", "auth.service", "auth.invalid", "auth.type", "auth.nouser"}

\* this step answers frame k of socket s as a failed authentication attempt
FailsAuthStep(s, k) ==
  /\ k \in 1..Len(hist'[s])
  /\ hist'[s][k].reply \in FailedAuthReplies
  /\ k \in 1..Len(hist[s]) => hist[s][k].reply = "none"

\* an auth frame with the access token of an existing user
ValidAuthFrame(f) ==
  /\ f.type = "auth"
  /\ f.token # SERVICE_TOKEN
  /\ JwtVerify(f.token).ok
  /\ JwtVerify(f.token).type = "access"
  /\ JwtVerify(f.token).sub \in Users

\* C20: every failed authentication attempt is answered with auth.error and
\* changes nothing else: the session, the socket, the registry and the
\* deadline timer stay as they were; a valid auth frame on a session that is
\* not authenticated still succeeds.
C20_FailedAuthChangesNothing ==
  /\ [][\A s \in Sockets : \A k \in 1..Len(hist'[s]) :
          FailsAuthStep(s, k) =>
            /\ authenticated' = authenticated
            /\ userId' = userId
            /\ readyState' = readyState
            /\ closeCode' = closeCode
            /\ authTimeout' = authTimeout
            /\ connections' = connections
            /\ socketMap' = socketMap
            /\ db' = db
            /\ \A s2 \in Sockets \ {s} : outbox'[s2] = outbox[s2]
            /\ outbox'[s] = IF readyState[s] = "OPEN"
                            THEN Append(outbox[s], AuthError(hist'[s][k].reply, [src |-> s, k |-> k]))
                            ELSE outbox[s]]_vars
  /\ [](\A id \in WsFrameIds :
          (/\ ValidAuthFrame(H(id).frame)
           /\ ~H(id).authed
           /\ ~InFlight(id)
           /\ H(id).reply # "auth.invalid") =>
            /\ H(id).reply = "auth.ok"
            /\ socketMap[id.src] # NoConn)

\* a socket failed an authentication attempt and authenticated with its next frame
C20_Witness ==
  \E s \in Sockets :
    /\ Len(hist[s]) = 2
    /\ hist[s][1].reply \in FailedAuthReplies
    /\ ValidAuthFrame(hist[s][2].frame)
    /\ hist[s][2].reply = "auth.ok"
    /\ authenticated[s]
    /\ authTimeout[s] = "cleared"
    /\ readyState[s] = "OPEN"
    /\ Len(outbox[s]) = 2

\* ---- the deadline timer and the handler's error paths
\* this step is the deadline action on socket s: the timer callback runs, the
\* timeout's auth.error is sent or the socket is closed with the timeout code
DeadlineActs(s) ==
  \/ authTimeout[s] = "pending" /\ authTimeout'[s] = "fired"
  \/ closeCode'[s] # closeCode[s]
  \/ \E i \in 1..Len(Appended(s)) : Appended(s)[i].cause = [src |-> s, k |-> 0]

\* C21: the deadline action happens only on a socket that is still
\* unauthenticated and whose close or error event has not fired; after a
\* successful authentication, a close or an error the timer is no longer
\* armed, sends no auth.error and closes nothing.
C21_DeadlineOnlyBeforeAuth ==
  /\ [][\A s \in Sockets :
          DeadlineActs(s) =>
            /\ ~authenticated[s]
            /\ readyState[s] = "OPEN"
            /\ ~errored[s]]_vars
  /\ [](\A s \in Sockets :
          authTimeout[s] = "pending" =>
            /\ ~authenticated[s]
            /\ readyState[s] = "OPEN"
            /\ ~errored[s])

\* the deadline closed one socket and was cancelled by the authentication of
\* the other, which is still open
C21_Witness ==
  \E s \in Sockets, s2 \in Sockets :
    /\ authTimeout[s] = "fired"
    /\ closeCode[s] = TIMEOUT_CLOSE_CODE
    /\ authTimeout[s2] = "cleared"
    /\ authenticated[s2]
    /\ readyState[s2] = "OPEN"
    /\ closeCode[s2] = 0

\* C22: when the storage call of a command throws, the handler sends one
\* ack with ok:false, code INTERNAL_ERROR and the frame's requestId,
\* broadcasts nothing, leaves the socket open and registered, and the session
\* goes on answering later commands.
C22_StorageFailureIsAcked ==
  /\ [][\A t \in tasks :
          (/\ t \notin tasks'
           /\ t.via = "ws"
           /\ t.kind \in CmdTypes
           /\ hist'[t.id.src][t.id.k].out = "throw") =>
            /\ readyState' = readyState
            /\ closeCode' = closeCode
            /\ authenticated' = authenticated
            /\ userId' = userId
            /\ connections' = connections
            /\ socketMap' = socketMap
            /\ db' = db
            /\ \A s2 \in Sockets \ {t.sock} : outbox'[s2] = outbox[s2]
            /\ outbox'[t.sock] =
                 IF readyState[t.sock] = "OPEN"
                 THEN Append(outbox[t.sock],
                             AckErr(RequestIdOf(hist[t.id.src][t.id.k].frame, t.id.k), "INTERNAL_ERROR", t.id))
                 ELSE outbox[t.sock]]_vars
  /\ [](\A id \in WsFrameIds :
          H(id).out = "throw" =>
            /\ H(id).bcasts = 0
            /\ \A s \in Sockets : Len(Events(s, id)) = 0
            /\ \A k \in (id.k + 1)..Len(hist[id.src]) :
                 LET later == [src |-> id.src, k |-> k] IN
                 (/\ H(later).frame.type \in CmdTypes
                  /\ ~InFlight(later)
                  /\ readyState[id.src] = "OPEN") =>
                   Len(Acks(id.src, later)) = 1)

\* the storage call of a command threw, the session got INTERNAL_ERROR, stayed
\* open and registered, and its next command succeeded afterwards
C22_Witness ==
  \E s \in Sockets :
    /\ Len(hist[s]) = 3
    /\ hist[s][2].out = "throw"
    /\ hist[s][3].out = "ok"
    /\ readyState[s] = "OPEN"
    /\ ~Unregistered(s)
    /\ Len(outbox[s]) = 4
    /\ outbox[s][2] = AckErr(2, "INTERNAL_ERROR", [src |-> s, k |-> 2])
    /\ outbox[s][3].ok

C24_InvalidJsonAck ==
  [][\A s \in Sockets :
       (/\ Len(hist'[s]) = Len(hist[s]) + 1
        /\ hist'[s][Len(hist'[s])].frame.type = "badjson") =>
         LET k == Len(hist'[s]) IN
         /\ hist'[s][k].reply = "INVALID_JSON"
         /\ hist'[s][k].calls = 0
         /\ tasks' = tasks
         /\ authenticated' = authenticated
         /\ userId' = userId
         /\ authTimeout' = authTimeout
         /\ readyState' = readyState
         /\ closeCode' = closeCode
         /\ connections' = connections
         /\ socketMap' = socketMap
         /\ db' = db
         /\ \A s2 \in Sockets \ {s} : outbox'[s2] = outbox[s2]
         /\ outbox'[s] = IF readyState[s] = "OPEN"
                         THEN Append(outbox[s], AckErr(0, "INVALID_JSON", [src |-> s, k |-> k]))
                         ELSE outbox[s]]_vars

\* an authenticated session sent text that is not JSON, got the INVALID_JSON
\* ack and is still authenticated, open and registered
C24_Witness ==
  \E id \in WsFrameIds :
    /\ H(id).frame.type = "badjson"
    /\ H(id).authed
    /\ authenticated[id.src]
    /\ readyState[id.src] = "OPEN"
    /\ ~Unregistered(id.src)
    /\ SentTo(id.src, id) = <<AckErr(0, "INVALID_JSON", id)>>

\* C25: no exception escapes the message handler on an authenticated
\* session: every frame, the JSON value null included, ends with an ack or an
\* auth reply sent to the socket while it is open.
C25_NoExceptionEscapes ==
  \A id \in WsFrameIds :
    (H(id).authed /\ ~InFlight(id)) =>
      /\ H(id).reply # "unhandled"
      /\ readyState[id.src] = "OPEN" =>
           \E i \in 1..Len(SentTo(id.src, id)) :
             SentTo(id.src, id)[i].type \in {"ack", "auth.ok", "auth.error"}

\* ---- ordering, closing sockets and isolation
\* the command handlers of socket s that are suspended at their storage call
CommandsInFlight(s) == {t \in tasks : t.via = "ws" /\ t.sock = s /\ t.kind \in CmdTypes}

\* the acks and events socket s got for its own commands, in sending order
OwnReplies(s) ==
  SelectSeq(outbox[s], LAMBDA m : (IsAck(m) \/ IsEvent(m)) /\ m.cause.src = s /\ m.cause.k > 0)

\* C26: the frames of one socket are handled one after the other: the
\* storage call of a command does not start while an earlier command of the
\* same socket is still waiting for its own, and the acks and events of the
\* socket's commands are sent in the order the commands arrived.
C26_PerSocketSerialized ==
  \A s \in Sockets :
    /\ Cardinality(CommandsInFlight(s)) <= 1
    /\ \A i \in 1..Len(OwnReplies(s)) : \A j \in 1..Len(OwnReplies(s)) :
         i < j => OwnReplies(s)[i].cause.k <= OwnReplies(s)[j].cause.k

\* the users socket s has authenticated as
AuthenticatedAs(s) == {JwtVerify(hist[s][k].frame.token).sub : k \in SucceededAuths(s)}

\* C27: when the storage call of a command returns after the originating
\* socket has stopped being open, the mutation is still applied, nothing is
\* sent to that socket, the handler ends normally, and the event is still
\* broadcast to the remaining open connections of the session's user.
C27_CloseDuringMutation ==
  [][\A t \in tasks :
       (/\ t \notin tasks'
        /\ t.via = "ws"
        /\ t.kind \in CmdTypes
        /\ readyState[t.sock] # "OPEN") =>
         LET h == hist'[t.id.src][t.id.k]
             r == StorageResult(db, t.kind, t.user, t.todoId, t.data) IN
         /\ h.out \in {"ok", "null", "throw"}
         /\ h.reply = h.out
         /\ outbox'[t.sock] = outbox[t.sock]
         /\ h.out # "throw" =>
              /\ h.out = r.out
              /\ db' = StorageRows(db, t.kind, t.user, t.todoId, t.data)
         /\ h.out = "ok" =>
              /\ h.bcasts = 1
              /\ \A b \in Sockets \ {t.sock} :
                   IF readyState[b] = "OPEN" /\ ConnectionsOf(b, userId[t.sock]) # {}
                   THEN /\ Len(Appended(b)) >= 1
                        /\ \A i \in 1..Len(Appended(b)) :
                             Appended(b)[i] = Event(DocumentedEvent(t.kind), r.res, t.id)
                   ELSE outbox'[b] = outbox[b]
         /\ h.out # "ok" => \A b \in Sockets : outbox'[b] = outbox[b]]_vars

\* a command succeeded after its socket had closed: the row exists, the
\* closed socket got neither ack nor event, and the other open socket of the
\* user got the event
C27_Witness ==
  \E id \in WsFrameIds : \E b \in Sockets \ {id.src} :
    /\ H(id).frame.type \in CmdTypes
    /\ H(id).out = "ok"
    /\ readyState[id.src] = "CLOSED"
    /\ Len(SentTo(id.src, id)) = 0
    /\ Len(db) = MaxEntities
    /\ readyState[b] = "OPEN"
    /\ Len(Events(b, id)) >= 1

\* C28: a command frame received before authentication is rejected at once
\* and not queued: it is answered with auth.error only, no ack and no event
\* is ever sent for it, it is never executed, also after the socket has
\* authenticated; a socket that never authenticates receives no ack for a
\* command.
C28_EarlyCommandsRejected ==
  /\ \A id \in WsFrameIds :
       (~H(id).authed /\ H(id).frame.type = "command") =>
         /\ ~InFlight(id)
         /\ H(id).reply = "auth.format"
         /\ H(id).calls = 0
         /\ H(id).out = "none"
         /\ H(id).bcasts = 0
         /\ \A s \in Sockets : \A i \in 1..Len(SentTo(s, id)) :
              /\ s = id.src
              /\ i = 1
              /\ SentTo(s, id)[i] = AuthError("auth.format", id)
  /\ \A s \in Sockets :
       (~authenticated[s] /\ SucceededAuths(s) = {}) =>
         \A i \in 1..Len(outbox[s]) :
           IsAck(outbox[s][i]) => outbox[s][i].code = "INVALID_JSON"

\* a socket sent a command without authenticating, was refused with
\* auth.error and was then closed by the deadline without any ack
C28_Witness ==
  \E s \in Sockets :
    /\ Len(hist[s]) >= 1
    /\ hist[s][1].frame.type = "command"
    /\ ~authenticated[s]
    /\ SucceededAuths(s) = {}
    /\ authTimeout[s] = "fired"
    /\ readyState[s] = "CLOSED"
    /\ Len(outbox[s]) >= 2
    /\ \A i \in 1..Len(outbox[s]) : outbox[s][i].type = "auth.error"

\* C29: an event produced by a mutation for user U is sent only to sockets
\* that authenticated as U; no socket that authenticated as another user
\* only ever receives it.
C29_UserIsolation ==
  \A s \in Sockets : \A i \in 1..Len(outbox[s]) :
    IsEvent(outbox[s][i]) => outbox[s][i].data.userId \in AuthenticatedAs(s)

\* C30: every opened socket eventually becomes authenticated or is closed;
\* a socket that does not authenticate is closed by the deadline timer with
\* the timeout code, unless an error or the peer closed it before.
C30_AuthenticatedOrClosed ==
  \A s \in Sockets :
    (readyState[s] = "OPEN" /\ ~authenticated[s]) ~>
      \/ authenticated[s]
      \/ closeCode[s] = TIMEOUT_CLOSE_CODE /\ readyState[s] # "OPEN"
      \/ errored[s]
      \/ readyState[s] = "CLOSED"

\* a socket that sent nothing was closed by the deadline while the other
\* socket sent a frame that is no valid auth frame and was closed by it too
C30_Witness ==
  \E s \in Sockets, s2 \in Sockets :
    /\ Len(hist[s]) = 0
    /\ Len(hist[s2]) = 1
    /\ hist[s2][1].reply \in FailedAuthReplies
    /\ \A x \in {s, s2} :
         /\ closeCode[x] = TIMEOUT_CLOSE_CODE
         /\ readyState[x] = "CLOSED"
         /\ ~authenticated[x]

\* ---- the command shapes
\* the orders in which the five shapes can be tried
ShapeOrders ==
  {o \in [1..Cardinality(CmdTypes) -> CmdTypes] :
     \A i \in DOMAIN o : \A j \in DOMAIN o : i # j => o[i] # o[j]}

\* C31: the five command shapes are mutually exclusive: a frame matches at
\* most one of them, the one named by its literal type; it starts at most one
\* storage call, of the kind of its type, and trying the shapes in any other
\* order selects the same command.
C31_ShapesExclusive ==
  \A id \in WsFrameIds :
    LET f == H(id).frame IN
    (H(id).authed /\ ParsesAsJson(f) /\ HasProperties(f)) =>
      /\ Cardinality({sh \in CmdTypes : MatchesShape(sh, f)}) <= 1
      /\ \A sh \in CmdTypes : MatchesShape(sh, f) => sh = f.type
      /\ \A o \in ShapeOrders : FirstMatch(o, f, 1) = MatchedCommand(f)
      /\ H(id).calls <= 1
      /\ H(id).calls = 1 <=> MatchedCommand(f) # NULL
      /\ \A t \in tasks : t.id = id => t.kind = f.type
      /\ H(id).out = "ok" =>
           \A s \in Sockets : \A i \in 1..Len(Events(s, id)) :
             Events(s, id)[i].type = DocumentedEvent(f.type)

\* a todo.update on an existing todo, which carries every field the
\* todo.complete shape asks for except the type, ran as an update
C31_Witness ==
  \E id \in WsFrameIds :
    /\ H(id).authed
    /\ H(id).frame.type = "todo.update"
    /\ H(id).frame.data = "ok"
    /\ H(id).frame.todoId = 1
    /\ H(id).out = "ok"
    /\ db[1].title = "b"
    /\ db[1].status = "open"
    /\ readyState[id.src] = "OPEN"
    /\ Len(Events(id.src, id)) = 1

\* ---- effects of the registry methods
\* this step is a call of send(s, m)
IsSendStep(s) ==
  /\ Len(hist'[s]) = Len(hist[s]) + 1
  /\ hist'[s][Len(hist'[s])].frame.type = "send"

\* C32: broadcastToUser and send never change the registry: after either
\* call the connections map, every user's group and the socket index are as
\* before, also when sockets of the group are closing or closed.
C32_SendsLeaveRegistry ==
  [][(IsBroadcastStep \/ \E s \in Sockets : IsSendStep(s)) =>
       /\ connections' = connections
       /\ socketMap' = socketMap
       /\ \A u \in Users : GetConnectionCount(u)' = GetConnectionCount(u)]_vars

\* after a broadcast to a group with an open and a closed socket and a send
\* to the closed socket, both are still registered
C32_Witness ==
  \E u \in Users, s \in Sockets, s2 \in Sockets :
    /\ s # s2
    /\ readyState[s] = "OPEN" /\ readyState[s2] = "CLOSED"
    /\ ConnectionsOf(s, u) # {} /\ ConnectionsOf(s2, u) # {}
    /\ Len(hist["rest"]) = 1
    /\ hist["rest"][1].frame.userId = u
    /\ Len(outbox[s]) = 1 /\ Len(outbox[s2]) = 0
    /\ Len(hist[s2]) = 2
    /\ hist[s2][2].frame.type = "send"

\* the connections of user u in registry cs that belong to other sockets than s
OthersIn(cs, u, s) ==
  IF HasKey(cs, u) THEN SelectSeq(cs[u], LAMBDA c : c.socket # s) ELSE <<>>

\* C34: removeConnection(s) for a registered socket removes only s: the
\* connections of every other socket, in the group of s's user and in every
\* other group, and the groups of all other users stay exactly as before.
C34_RemoveOnlyThatSocket ==
  [][\A s \in Sockets :
       (IsRemoveStep(s) /\ socketMap[s] # NoConn) =>
         /\ \A u \in Users : OthersIn(connections', u, s) = OthersIn(connections, u, s)
         /\ \A u \in Users \ {socketMap[s].userId} :
              /\ HasKey(connections', u) <=> HasKey(connections, u)
              /\ HasKey(connections, u) => connections'[u] = connections[u]
         /\ socketMap' = socketMap]_vars

\* a socket registered for one user and then for the other was removed: the
\* other socket of its last user and the group of its first user are intact
C34_Witness ==
  \E s \in Sockets, s2 \in Sockets, u \in Users, v \in Users :
    /\ s # s2 /\ u # v
    /\ Len(hist[s]) = 3
    /\ hist[s][1].frame.type = "addConnection" /\ hist[s][1].frame.userId = v
    /\ hist[s][2].frame.type = "addConnection" /\ hist[s][2].frame.userId = u
    /\ hist[s][3].frame.type = "removeConnection"
    /\ Len(hist[s2]) = 1
    /\ hist[s2][1].frame.type = "addConnection" /\ hist[s2][1].frame.userId = u
    /\ GetConnectionCount(u) = 1 /\ Group(u)[1].socket = s2
    /\ GetConnectionCount(v) = 1 /\ Group(v)[1].socket = s

\* ---- identity of a session
\* C33: once a session is authenticated as user u its identity never
\* changes: the session's userId and the socket's registration stay as they
\* are for the rest of the socket's life, every command on it is executed for
\* u, and the socket is registered under u only.
C33_IdentityIsFixed ==
  /\ [][\A s \in Sockets :
          authenticated[s] =>
            /\ authenticated'[s]
            /\ userId'[s] = userId[s]
            /\ socketMap'[s] = socketMap[s]]_vars
  /\ [](\A s \in Sockets :
          authenticated[s] =>
            /\ \A u \in Users : ConnectionsOf(s, u) # {} => u = userId[s]
            /\ \A k \in 1..Len(hist[s]) : hist[s][k].calls = 1 => hist[s][k].callUser = userId[s])

\* ---- order of events
\* the causes of the events socket s has been sent
EventCauses(s) == {outbox[s][i].cause : i \in {j \in 1..Len(outbox[s]) : IsEvent(outbox[s][j])}}

\* on socket s every copy of the event of x was sent before every copy of the event of y
EventBefore(s, x, y) ==
  \A i \in 1..Len(outbox[s]) : \A j \in 1..Len(outbox[s]) :
    (/\ IsEvent(outbox[s][i]) /\ outbox[s][i].cause = x
     /\ IsEvent(outbox[s][j]) /\ outbox[s][j].cause = y) => i < j

\* C35: two sockets that both received the events of two broadcasts
\* received them in the same relative order, whatever the interleaving of
\* the WebSocket commands and REST calls that produced them.
C35_SameEventOrder ==
  \A a \in Sockets : \A b \in Sockets \ {a} :
    \A x \in EventCauses(a) \cap EventCauses(b) :
      \A y \in (EventCauses(a) \cap EventCauses(b)) \ {x} :
        /\ EventBefore(a, x, y) \/ EventBefore(a, y, x)
        /\ EventBefore(a, x, y) <=> EventBefore(b, x, y)

\* both open sockets of the user hold the events of two commands of one of
\* them, the event of the command that arrived later first on both
C35_Witness ==
  \E a \in Sockets : \E b \in Sockets \ {a} :
    \E x \in EventCauses(a) \cap EventCauses(b) :
      \E y \in EventCauses(a) \cap EventCauses(b) :
        /\ x.src = a /\ y.src = a
        /\ x.k < y.k
        /\ EventBefore(a, y, x)
        /\ EventBefore(b, y, x)
        /\ readyState[a] = "OPEN" /\ readyState[b] = "OPEN"

\* ---- web client
\* the WebSocket objects that are connecting or open
LiveWebSockets == {w \in 1..Len(webSockets) : webSockets[w].readyState \in {"CONNECTING", "OPEN"}}

\* C36: after any sequence of login, token change, logout, socket close and
\* reconnect-timer events the provider has at most one connecting or open
\* WebSocket and wsRef refers to it; the close event of an older socket
\* never clears the reference to a newer one.
C36_OneSocketReferenced ==
  /\ Cardinality(LiveWebSockets) <= 1
  /\ \A w \in LiveWebSockets : wsRef = w

\* the client has no connecting or open WebSocket and no pending reconnect timer
Quiet == LiveWebSockets = {} /\ timers = {}

\* C37: after logout the client eventually has no open WebSocket and no
\* pending reconnect timer, and it never opens a new WebSocket with the old
\* access token.
C37_LogoutEndsConnections ==
  /\ [][(~isAuthenticated /\ ~isAuthenticated') => Len(webSockets') = Len(webSockets)]_vars
  /\ (~isAuthenticated) ~> (isAuthenticated \/ Quiet)

====
